---- MODULE Spec2Model ----
(***************************************************************************)
(* A model of evals/evaluation/rag_eval/examples/eval_crud.py: the         *)
(* CRUD_Evaluator field extractors, template selection and response        *)
(* post-processing, and the control flow of main().                        *)
(*                                                                         *)
(* Python strings that are taken apart (post_process) are sequences of     *)
(* one-character strings.  A call's outcome is a record: Ok(v) for a       *)
(* returned value, Raise(exc, arg) for a raised exception.                 *)
(***************************************************************************)
EXTENDS Integers, Sequences, FiniteSets, TLC

VARIABLES
    \* ---- extractor calls (one CRUD_Evaluator, one record) ----
    task,          \* self.task of the evaluator under test
    data,          \* the record handed to the extractors
    data0,         \* the record as it was before any call
    outQuery,      \* outcome of get_query(data)
    outDocument,   \* outcome of get_document(data)
    outGroundTruth,\* outcome of get_ground_truth_text(data)
    outTemplate,   \* outcome of get_template()
    \* ---- post_process calls ----
    ppIn,          \* the raw completion handed to post_process
    ppOut,         \* outcome of post_process(ppIn)
    \* ---- main() ----
    pc,            \* position of main
    dataset_file,  \* the file at args.dataset_path: absent, or its JSON content
    all_datasets,  \* main's all_datasets: group name -> records, once loaded
    tasks,         \* args.tasks
    ingest_docs,   \* args.ingest_docs
    policy,        \* evaluate's handling of a failed generation call
    ti,            \* index in tasks of the current iteration of the for loop
    evaluator,     \* the CRUD_Evaluator of the current iteration
    ri,            \* index of the next record of evaluator.dataset
    results,       \* the in-memory result collection of the running evaluate
    files,         \* the output files: path -> written collection
    dirCreated,    \* whether os.makedirs(args.output_dir) has run
    error,         \* the exception that ended main, if any
    failures,      \* how many generation calls the endpoint has failed
    trace          \* the calls main has made, in order

fnVars == <<task, data, data0, outQuery, outDocument, outGroundTruth, outTemplate>>
ppVars == <<ppIn, ppOut>>
mainVars == <<pc, dataset_file, all_datasets, tasks, ingest_docs, policy, ti,
              evaluator, ri, results, files, dirCreated, error, failures, trace>>
vars == <<fnVars, ppVars, mainVars>>

\* ------------------------------------------------------------------ bounds
MaxVal == 2
MaxPieces == 4
MaxTasks == 3
MaxRecords == 3
MaxFailures == 1

\* --------------------------------------------------------------- outcomes
Ok(v) == [kind |-> "ok", value |-> v]
Raise(exc, arg) == [kind |-> "raise", exc |-> exc, arg |-> arg]
NotCalled == [kind |-> "none"]

\* The tasks the NotImplementedError message names as supported.
MsgSupported == {"summarization", "question_answering", "continuation",
                 "hallucinated_modified"}

UnknownTask(t) == Raise("NotImplementedError", [task |-> t, supported |-> MsgSupported])

\* data[key] of a Python dict: the value, or KeyError(key).
GetItem(d, key) == IF key \in DOMAIN d THEN Ok(d[key]) ELSE Raise("KeyError", key)

\* ------------------------------------------------------------- extractors
get_ground_truth_text_wrongfield(t, d) ==
    IF t = "summarization" THEN GetItem(d, "summary")
    ELSE IF t = "question_answering" THEN GetItem(d, "answers")
    ELSE IF t = "continuation" THEN GetItem(d, "continuing")
    ELSE IF t = "hallucinated_modified" THEN GetItem(d, "newsBeginning")
    ELSE UnknownTask(t)

get_ground_truth_text(t, d) ==
    IF t = "summarization" THEN GetItem(d, "summary")
    ELSE IF t = "question_answering" THEN GetItem(d, "answers")
    ELSE IF t = "continuation" THEN GetItem(d, "continuing")
    ELSE IF t = "hallucinated_modified" THEN GetItem(d, "hallucinatedMod")
    ELSE UnknownTask(t)

\* get_query reading question_answering's document field.
get_query_documentfield(t, d) ==
    IF t = "summarization" THEN GetItem(d, "text")
    ELSE IF t = "question_answering" THEN GetItem(d, "news1")
    ELSE IF t = "continuation" THEN GetItem(d, "beginning")
    ELSE IF t = "hallucinated_modified" THEN GetItem(d, "newsBeginning")
    ELSE UnknownTask(t)

get_query(t, d) ==
    IF t = "summarization" THEN GetItem(d, "text")
    ELSE IF t = "question_answering" THEN GetItem(d, "questions")
    ELSE IF t = "continuation" THEN GetItem(d, "beginning")
    ELSE IF t = "hallucinated_modified" THEN GetItem(d, "newsBeginning")
    ELSE UnknownTask(t)

\* get_document with the hallucinated_modified branch left out.
get_document_threetasks(t, d) ==
    IF t = "summarization" THEN GetItem(d, "text")
    ELSE IF t = "question_answering" THEN GetItem(d, "news1")
    ELSE IF t = "continuation" THEN GetItem(d, "beginning")
    ELSE UnknownTask(t)

get_document(t, d) ==
    IF t = "summarization" THEN GetItem(d, "text")
    ELSE IF t = "question_answering" THEN GetItem(d, "news1")
    ELSE IF t = "continuation" THEN GetItem(d, "beginning")
    ELSE IF t = "hallucinated_modified" THEN GetItem(d, "newsBeginning")
    ELSE UnknownTask(t)

\* The templates of CRUDTemplate are opaque: each is named by its getter.
get_template_fourtasks(t) ==
    IF t = "summarization" THEN Ok("summarization_template")
    ELSE IF t = "question_answering" THEN Ok("question_answering_template")
    ELSE IF t = "continuation" THEN Ok("continuation_template")
    ELSE IF t = "hallucinated_modified" THEN Ok("hallucinated_modified_template")
    ELSE UnknownTask(t)

get_template(t) ==
    IF t = "summarization" THEN Ok("summarization_template")
    ELSE IF t = "question_answering" THEN Ok("question_answering_template")
    ELSE IF t = "continuation" THEN Ok("continuation_template")
    ELSE UnknownTask(t)

\* ------------------------------------------------------------ post_process
OPEN == <<"<", "r", "e", "s", "p", "o", "n", "s", "e", ">">>
CLOSE == <<"<", "/", "r", "e", "s", "p", "o", "n", "s", "e", ">">>

\* The characters str.strip() removes (those that occur in the model).
Whitespace == {" ", "\n", "\t"}

\* Whether sep occurs in s at index i.
MatchAt(s, sep, i) ==
    /\ i >= 1
    /\ i + Len(sep) - 1 <= Len(s)
    /\ \A k \in 1..Len(sep) : s[i + k - 1] = sep[k]

\* str.find: the index of the leftmost occurrence of sep in s, 0 when absent.
Find(s, sep) ==
    LET hits == {i \in 1..Len(s) : MatchAt(s, sep, i)}
    IN  IF hits = {} THEN 0 ELSE CHOOSE i \in hits : \A j \in hits : i <= j

\* str.split(sep): the pieces between the occurrences of sep, found left to
\* right without overlap; one piece (s itself) when sep does not occur.
RECURSIVE Split(_, _)
Split(s, sep) ==
    LET i == Find(s, sep)
    IN  IF i = 0 THEN <<s>>
        ELSE <<SubSeq(s, 1, i - 1)>> \o Split(SubSeq(s, i + Len(sep), Len(s)), sep)

\* str.strip(): leading and trailing whitespace removed.
RECURSIVE LStrip(_)
LStrip(s) == IF s # <<>> /\ Head(s) \in Whitespace THEN LStrip(Tail(s)) ELSE s

RECURSIVE RStrip(_)
RStrip(s) ==
    IF s # <<>> /\ s[Len(s)] \in Whitespace THEN RStrip(SubSeq(s, 1, Len(s) - 1)) ELSE s

Strip(s) == RStrip(LStrip(s))

\* post_process taking the first piece of the split on the opening marker.
post_process_firstpiece(result) ==
    LET a == Split(result, OPEN)
        b == Split(a[1], CLOSE)
    IN  Strip(b[1])

\* result.split("<response>")[-1].split("</response>")[0].strip()
post_process(result) ==
    LET a == Split(result, OPEN)
        b == Split(a[Len(a)], CLOSE)
    IN  Strip(b[1])

\* ------------------------------------------------------------------ inputs
Fields == {"text", "summary", "questions", "answers", "news1", "beginning",
           "continuing", "newsBeginning", "hallucinatedMod"}

\* Task identifiers: the four of the extractors and two outside them.
TaskIds == MsgSupported \cup {"translation", ""}

\* Records: any set of fields present, each field holding a value of its own.
Records == {[f \in S |-> <<f, n>>] : S \in SUBSET Fields, n \in 1..MaxVal}

\* Raw completions: up to MaxPieces pieces, markers and fragments of markers
\* among them, joined.
Pieces == {OPEN, CLOSE, <<" ">>, <<"\n">>, <<"a">>, <<"<">>,
           <<"/", "r", "e", "s", "p", "o", "n", "s", "e", ">">>}

RECURSIVE Join(_)
Join(ps) == IF ps = <<>> THEN <<>> ELSE Head(ps) \o Join(Tail(ps))

RawTexts == {Join(ps) : ps \in UNION {[1..n -> Pieces] : n \in 0..MaxPieces}}

\* ------------------------------------------------------------ idle parts
IdleFn ==
    /\ task = "" /\ data = <<>> /\ data0 = <<>>
    /\ outQuery = NotCalled /\ outDocument = NotCalled
    /\ outGroundTruth = NotCalled /\ outTemplate = NotCalled

IdlePP == ppIn = <<>> /\ ppOut = NotCalled

IdleMain ==
    /\ pc = "idle" /\ dataset_file = [exists |-> FALSE] /\ all_datasets = <<>>
    /\ tasks = <<>> /\ ingest_docs = FALSE /\ policy = "abort" /\ ti = 0
    /\ evaluator = NotCalled /\ ri = 0 /\ results = <<>> /\ files = <<>>
    /\ dirCreated = FALSE /\ error = NotCalled /\ failures = 0 /\ trace = <<>>

\* ------------------------------------------- the extractors, called once
InitExtract ==
    /\ task \in TaskIds
    /\ data \in Records
    /\ data0 = data
    /\ outQuery = NotCalled /\ outDocument = NotCalled
    /\ outGroundTruth = NotCalled /\ outTemplate = NotCalled
    /\ IdlePP /\ IdleMain

CallGetQuery ==
    /\ outQuery = NotCalled
    /\ outQuery' = get_query(task, data)
    /\ UNCHANGED <<task, data, data0, outDocument, outGroundTruth, outTemplate>>
    /\ UNCHANGED <<ppVars, mainVars>>

CallGetDocument ==
    /\ outDocument = NotCalled
    /\ outDocument' = get_document(task, data)
    /\ UNCHANGED <<task, data, data0, outQuery, outGroundTruth, outTemplate>>
    /\ UNCHANGED <<ppVars, mainVars>>

CallGetGroundTruth ==
    /\ outGroundTruth = NotCalled
    /\ outGroundTruth' = get_ground_truth_text(task, data)
    /\ UNCHANGED <<task, data, data0, outQuery, outDocument, outTemplate>>
    /\ UNCHANGED <<ppVars, mainVars>>

CallGetTemplate ==
    /\ outTemplate = NotCalled
    /\ outTemplate' = get_template(task)
    /\ UNCHANGED <<task, data, data0, outQuery, outDocument, outGroundTruth>>
    /\ UNCHANGED <<ppVars, mainVars>>

NextExtract == CallGetQuery \/ CallGetDocument \/ CallGetGroundTruth \/ CallGetTemplate

SpecExtract == InitExtract /\ [][NextExtract]_vars

\* ------------------------------------------- post_process, called once
InitPost ==
    /\ ppIn \in RawTexts
    /\ ppOut = NotCalled
    /\ IdleFn /\ IdleMain

CallPostProcess ==
    /\ ppOut = NotCalled
    /\ ppOut' = Ok(post_process(ppIn))
    /\ UNCHANGED <<ppIn, fnVars, mainVars>>

NextPost == CallPostProcess

SpecPost == InitPost /\ [][NextPost]_vars

\* ================================================================= main()
\* The dataset groups main reads (lines 139 and 141), and a record of each.
\* Record i of a group holds the fields of the group's task; the values
\* repeat after MaxVal records, so a group may hold equal records.  A
\* dataset file holds MaxRecords records, split over the two groups.
GroupFields ==
    [questanswer_1doc |-> {"questions", "answers", "news1"},
     event_summary |-> {"text", "summary"}]

DatasetRecord(group, i) == [f \in GroupFields[group] |-> <<f, ((i - 1) % MaxVal) + 1>>]

DatasetContent(nq, ns) ==
    [questanswer_1doc |-> [i \in 1..nq |-> DatasetRecord("questanswer_1doc", i)],
     event_summary |-> [i \in 1..ns |-> DatasetRecord("event_summary", i)]]

\* The task identifiers given to --tasks.
MainTaskIds == MsgSupported \cup {"translation"}

TaskLists == UNION {[1..n -> MainTaskIds] : n \in 1..MaxTasks}

\* Raw completions of the generation endpoint.
Responses == {<<"n">> \o OPEN \o <<" ", "A">> \o CLOSE \o <<"t">>}

Event(op, it, idx, arg) == [op |-> op, it |-> it, idx |-> idx, arg |-> arg]

\* os.path.join(args.output_dir, f"{task}.json"), all tasks to one file.
OutputSavePath_onefile(t) == <<"output_dir", "results", ".json">>

\* os.path.join(args.output_dir, f"{task}.json")
OutputSavePath(t) == <<"output_dir", t, ".json">>

\* Lines 138-146: the dataset slice of a task, or the unknown-task error.
SelectDataset(t, ds) ==
    IF t = "question_answering" THEN Ok(ds["questanswer_1doc"])
    ELSE IF t = "summarization" THEN Ok(ds["event_summary"])
    ELSE UnknownTask(t)

InitMain ==
    /\ pc = "start"
    /\ dataset_file \in {[exists |-> FALSE]} \cup
           {[exists |-> TRUE, content |-> DatasetContent(nq, MaxRecords - nq)] :
                nq \in 0..MaxRecords}
    /\ all_datasets = <<>>
    /\ tasks \in TaskLists
    /\ ingest_docs \in BOOLEAN
    /\ policy \in {"abort", "skip"}
    /\ ti = 0
    /\ evaluator = NotCalled
    /\ ri = 0
    /\ results = <<>>
    /\ files = <<>>
    /\ dirCreated = FALSE
    /\ error = NotCalled
    /\ failures = 0
    /\ trace = <<>>
    /\ IdleFn /\ IdlePP

\* Lines 131-136 with os.makedirs moved before the isfile test.
MainLoad_makedirsfirst ==
    /\ pc = "start"
    /\ dirCreated' = TRUE
    /\ trace' = Append(trace, Event("makedirs", 0, 0, "output_dir"))
    /\ IF dataset_file.exists
       THEN /\ all_datasets' = dataset_file.content
            /\ pc' = "for"
            /\ ti' = 1
            /\ error' = error
       ELSE /\ pc' = "raised"
            /\ error' = Raise("FileNotFoundError", "dataset_path")
            /\ UNCHANGED <<all_datasets, ti>>
    /\ UNCHANGED <<dataset_file, tasks, ingest_docs, policy, evaluator, ri, results, files,
                   failures>>
    /\ UNCHANGED <<fnVars, ppVars>>

\* Lines 131-136: load the dataset file or raise FileNotFoundError, then
\* create the output directory.
MainLoad ==
    /\ pc = "start"
    /\ IF dataset_file.exists
       THEN /\ all_datasets' = dataset_file.content
            /\ dirCreated' = TRUE
            /\ trace' = Append(trace, Event("makedirs", 0, 0, "output_dir"))
            /\ pc' = "for"
            /\ ti' = 1
            /\ error' = error
       ELSE /\ pc' = "raised"
            /\ error' = Raise("FileNotFoundError", "dataset_path")
            /\ UNCHANGED <<all_datasets, dirCreated, trace, ti>>
    /\ UNCHANGED <<dataset_file, tasks, ingest_docs, policy, evaluator, ri, results, files,
                   failures>>
    /\ UNCHANGED <<fnVars, ppVars>>

\* What a raise in main does: the exception ends the run.
Abort(exc) ==
    /\ pc' = "raised"
    /\ error' = exc

\* The evaluator of lines 148-150.
NewEvaluator(t, dataset) ==
    [kind |-> "evaluator", dataset |-> dataset, output_path |-> OutputSavePath(t), task |-> t]

\* Lines 137-151 going on to evaluate whatever args.ingest_docs says.
MainNextTask_noingest ==
    /\ pc = "for"
    /\ ti <= Len(tasks)
    /\ LET t == tasks[ti]
           sel == SelectDataset(t, all_datasets)
       IN  IF sel.kind = "raise"
           THEN /\ Abort(sel)
                /\ trace' = Append(trace, Event("reject", ti, 0, t))
                /\ UNCHANGED evaluator
           ELSE /\ evaluator' = NewEvaluator(t, sel.value)
                /\ trace' = Append(trace, Event("construct", ti, 0, OutputSavePath(t)))
                /\ pc' = "evaluate"
                /\ error' = error
    /\ UNCHANGED <<dataset_file, all_datasets, tasks, ingest_docs, policy, ti, ri, results,
                   files, dirCreated, failures>>
    /\ UNCHANGED <<fnVars, ppVars>>

\* Lines 137-151 going on to the next task when slice selection rejects one.
MainNextTask_skiprejected ==
    /\ pc = "for"
    /\ ti <= Len(tasks)
    /\ LET t == tasks[ti]
           sel == SelectDataset(t, all_datasets)
       IN  IF sel.kind = "raise"
           THEN /\ pc' = "for"
                /\ ti' = ti + 1
                /\ error' = sel
                /\ trace' = Append(trace, Event("reject", ti, 0, t))
                /\ UNCHANGED evaluator
           ELSE /\ evaluator' = NewEvaluator(t, sel.value)
                /\ trace' = Append(trace, Event("construct", ti, 0, OutputSavePath(t)))
                /\ pc' = IF ingest_docs THEN "ingest" ELSE "evaluate"
                /\ error' = error
                /\ ti' = ti
    /\ UNCHANGED <<dataset_file, all_datasets, tasks, ingest_docs, policy, ri, results,
                   files, dirCreated, failures>>
    /\ UNCHANGED <<fnVars, ppVars>>

\* Lines 137-151: the next task of the for loop: select its dataset slice
\* (or raise, which ends main), build the output path and the evaluator, and
\* go on to ingestion when args.ingest_docs is set, to evaluate otherwise.
MainNextTask ==
    /\ pc = "for"
    /\ ti <= Len(tasks)
    /\ LET t == tasks[ti]
           sel == SelectDataset(t, all_datasets)
       IN  IF sel.kind = "raise"
           THEN /\ Abort(sel)
                /\ trace' = Append(trace, Event("reject", ti, 0, t))
                /\ UNCHANGED evaluator
           ELSE /\ evaluator' = NewEvaluator(t, sel.value)
                /\ trace' = Append(trace, Event("construct", ti, 0, OutputSavePath(t)))
                /\ pc' = IF ingest_docs THEN "ingest" ELSE "evaluate"
                /\ error' = error
    /\ UNCHANGED <<dataset_file, all_datasets, tasks, ingest_docs, policy, ti, ri, results,
                   files, dirCreated, failures>>
    /\ UNCHANGED <<fnVars, ppVars>>

\* Line 137: the for loop is exhausted and main returns.
MainDone ==
    /\ pc = "for"
    /\ ti > Len(tasks)
    /\ pc' = "done"
    /\ UNCHANGED <<dataset_file, all_datasets, tasks, ingest_docs, policy, ti, evaluator, ri,
                   results, files, dirCreated, error, failures, trace>>
    /\ UNCHANGED <<fnVars, ppVars>>

\* Line 152: CRUD_Evaluator.ingest_docs(...).  The ingestion endpoint answers
\* or fails; a failure is raised to main (section 4.4), which ends the run.
IngestDocs ==
    /\ pc = "ingest"
    /\ \E ok \in BOOLEAN :
        /\ trace' = Append(trace, Event("ingest", ti, 0, ok))
        /\ IF ok
           THEN pc' = "evaluate" /\ error' = error
           ELSE Abort(Raise("RemoteServiceError", "ingest"))
    /\ UNCHANGED <<dataset_file, all_datasets, tasks, ingest_docs, policy, ti, evaluator, ri,
                   results, files, dirCreated, failures>>
    /\ UNCHANGED <<fnVars, ppVars>>

\* Line 153: evaluator.evaluate(...) is called: a run starts with an empty
\* result collection at the first record (section 4.5).
EvaluateBegin ==
    /\ pc = "evaluate"
    /\ pc' = "record"
    /\ ri' = 1
    /\ results' = <<>>
    /\ trace' = Append(trace, Event("evaluate", ti, 0, evaluator.output_path))
    /\ UNCHANGED <<dataset_file, all_datasets, tasks, ingest_docs, policy, ti, evaluator,
                   files, dirCreated, error, failures>>
    /\ UNCHANGED <<fnVars, ppVars>>

\* The result record of one dataset record and the post-processed answer.
ResultRecord(q, gt, answer) ==
    [query |-> q, ground_truth |-> gt, generated_answer |-> answer]

\* The prompt: the task's template formatted with query and document.
Prompt(tpl, q, doc) == [template |-> tpl, query |-> q, document |-> doc]

\* Section 4.5 PerRecord: extract ground truth, query and document, select
\* and format the template, call the generation endpoint, post-process the
\* answer and append the result record.  An extractor's or get_template's
\* exception ends the run; a failed generation call ends it or skips the
\* record, by the policy of the run.  The endpoint fails at most MaxFailures
\* calls.
EvaluateRecord ==
    /\ pc = "record"
    /\ ri <= Len(evaluator.dataset)
    /\ LET d == evaluator.dataset[ri]
           gt == get_ground_truth_text(evaluator.task, d)
           q == get_query(evaluator.task, d)
           doc == get_document(evaluator.task, d)
           tpl == get_template(evaluator.task)
           raised == SelectSeq(<<gt, q, doc, tpl>>, LAMBDA o : o.kind = "raise")
       IN  IF raised # <<>>
           THEN /\ Abort(raised[1])
                /\ UNCHANGED <<ri, results, failures, trace>>
           ELSE \E reply \in {Ok(raw) : raw \in Responses} \cup
                              {Raise("RemoteServiceError", "generate")} :
                /\ reply.kind = "raise" => failures < MaxFailures
                /\ failures' = IF reply.kind = "raise" THEN failures + 1 ELSE failures
                /\ trace' = Append(trace,
                       Event("generate", ti, ri,
                             [prompt |-> Prompt(tpl.value, q.value, doc.value),
                              reply |-> reply]))
                /\ IF reply.kind = "raise"
                   THEN IF policy = "abort"
                        THEN /\ Abort(reply)
                             /\ UNCHANGED <<ri, results>>
                        ELSE /\ ri' = ri + 1
                             /\ UNCHANGED <<pc, error, results>>
                   ELSE /\ results' = Append(results,
                                ResultRecord(q.value, gt.value, post_process(reply.value)))
                        /\ ri' = ri + 1
                        /\ UNCHANGED <<pc, error>>
    /\ UNCHANGED <<dataset_file, all_datasets, tasks, ingest_docs, policy, ti, evaluator,
                   files, dirCreated>>
    /\ UNCHANGED <<fnVars, ppVars>>

\* Section 4.5 Finalize, then lines 153-156: the collection is serialized to
\* the evaluator's output path, evaluate returns and the iteration ends.
EvaluateFinalize ==
    /\ pc = "record"
    /\ ri > Len(evaluator.dataset)
    /\ files' = [p \in DOMAIN files \cup {evaluator.output_path} |->
                    IF p = evaluator.output_path THEN results ELSE files[p]]
    /\ trace' = Append(trace,
           Event("write", ti, Len(results),
                 [path |-> evaluator.output_path, collection |-> results]))
    /\ pc' = "for"
    /\ ti' = ti + 1
    /\ UNCHANGED <<dataset_file, all_datasets, tasks, ingest_docs, policy, evaluator, ri,
                   results, dirCreated, error, failures>>
    /\ UNCHANGED <<fnVars, ppVars>>

Next ==
    \/ MainLoad
    \/ MainNextTask
    \/ MainDone
    \/ IngestDocs
    \/ EvaluateBegin
    \/ EvaluateRecord
    \/ EvaluateFinalize

Init == InitMain

Spec == Init /\ [][Next]_vars


\* ==================================================== claims: extractors
\* The table of section 4.1: task -> (query, document, ground truth) field.
FieldTable ==
    [summarization |-> [query |-> "text", document |-> "text", ground_truth |-> "summary"],
     question_answering |-> [query |-> "questions", document |-> "news1", ground_truth |-> "answers"],
     continuation |-> [query |-> "beginning", document |-> "beginning", ground_truth |-> "continuing"],
     hallucinated_modified |-> [query |-> "newsBeginning", document |-> "newsBeginning",
                                ground_truth |-> "hallucinatedMod"]]

HasRequiredFields ==
    /\ task \in DOMAIN FieldTable
    /\ {FieldTable[task].query, FieldTable[task].document,
        FieldTable[task].ground_truth} \subseteq DOMAIN data0

IsUnknownTaskError(out) ==
    /\ out.kind = "raise"
    /\ out.exc = "NotImplementedError"
    /\ out.arg.task = task

\* C1: for each of the four tasks and every record holding the task's fields,
\* get_query, get_document and get_ground_truth_text return exactly the
\* record's value of the field the table names, and the record is unchanged.
C1_ExtractorsFollowTable ==
    /\ data = data0
    /\ HasRequiredFields =>
        /\ outQuery # NotCalled => outQuery = Ok(data0[FieldTable[task].query])
        /\ outDocument # NotCalled => outDocument = Ok(data0[FieldTable[task].document])
        /\ outGroundTruth # NotCalled =>
               outGroundTruth = Ok(data0[FieldTable[task].ground_truth])

C1_Witness ==
    /\ task = "hallucinated_modified"
    /\ HasRequiredFields
    /\ outQuery.kind = "ok" /\ outDocument.kind = "ok" /\ outGroundTruth.kind = "ok"
    /\ outGroundTruth.value # outQuery.value

\* C3: for a task outside the four, each extractor raises the unknown-task
\* error naming the task, whatever the record; and the three extractors
\* accept the same tasks (one raises the unknown-task error iff the others do).
C3_UnknownTaskRejectedByAll ==
    /\ task \notin MsgSupported =>
        /\ outQuery # NotCalled => IsUnknownTaskError(outQuery)
        /\ outDocument # NotCalled => IsUnknownTaskError(outDocument)
        /\ outGroundTruth # NotCalled => IsUnknownTaskError(outGroundTruth)
    /\ task \in MsgSupported =>
        /\ outQuery # NotCalled => ~IsUnknownTaskError(outQuery)
        /\ outDocument # NotCalled => ~IsUnknownTaskError(outDocument)
        /\ outGroundTruth # NotCalled => ~IsUnknownTaskError(outGroundTruth)

C3_Witness ==
    /\ task = "translation"
    /\ DOMAIN data0 = Fields
    /\ IsUnknownTaskError(outQuery)
    /\ IsUnknownTaskError(outDocument)
    /\ IsUnknownTaskError(outGroundTruth)

\* C4: get_template returns a template exactly for summarization,
\* question_answering and continuation; for hallucinated_modified and any
\* other task it raises the unknown-task error, while the three extractors
\* succeed for hallucinated_modified on a record holding its fields.
C4_TemplateForThreeTasks ==
    /\ outTemplate # NotCalled =>
        IF task \in {"summarization", "question_answering", "continuation"}
        THEN outTemplate.kind = "ok"
        ELSE IsUnknownTaskError(outTemplate)
    /\ (task = "hallucinated_modified" /\ HasRequiredFields) =>
        /\ outQuery # NotCalled => outQuery.kind = "ok"
        /\ outDocument # NotCalled => outDocument.kind = "ok"
        /\ outGroundTruth # NotCalled => outGroundTruth.kind = "ok"

C4_Witness ==
    /\ task = "hallucinated_modified"
    /\ HasRequiredFields
    /\ IsUnknownTaskError(outTemplate)
    /\ outQuery.kind = "ok" /\ outDocument.kind = "ok" /\ outGroundTruth.kind = "ok"

\* ================================================== claims: post_process
\* Where the text after the last opening marker starts (1 without a marker).
AfterLastOpen(s) ==
    LET hits == {i \in 1..Len(s) : MatchAt(s, OPEN, i)}
    IN  IF hits = {} THEN 1
        ELSE (CHOOSE i \in hits : \A j \in hits : j <= i) + Len(OPEN)

\* Where the text before the first closing marker at or after `from` ends.
BeforeFirstClose(s, from) ==
    LET hits == {i \in from..Len(s) : MatchAt(s, CLOSE, i)}
    IN  IF hits = {} THEN Len(s)
        ELSE (CHOOSE i \in hits : \A j \in hits : i <= j) - 1

\* r is m with its surrounding whitespace trimmed.
IsTrimOf(r, m) ==
    /\ r = <<>> \/ (r[1] \notin Whitespace /\ r[Len(r)] \notin Whitespace)
    /\ \E a \in 0..Len(m) :
        /\ a + Len(r) <= Len(m)
        /\ \A k \in 1..Len(m) : (k <= a \/ k > a + Len(r)) => m[k] \in Whitespace
        /\ \A k \in 1..Len(r) : r[k] = m[a + k]

\* C2: post_process never raises and returns the trimmed text after the last
\* <response> (from the start without one) and before the first </response>
\* following that point (to the end without one).
C2_PostProcessExtracts ==
    ppOut # NotCalled =>
        /\ ppOut.kind = "ok"
        /\ LET from == AfterLastOpen(ppIn)
               to == BeforeFirstClose(ppIn, from)
           IN  IsTrimOf(ppOut.value, SubSeq(ppIn, from, to))

\* A closing marker before the opening one, and whitespace to trim.
C2_Witness ==
    /\ ppIn = CLOSE \o OPEN \o <<" ">> \o <<"a">>
    /\ ppOut = Ok(<<"a">>)

\* ======================================================== claims: main()
\* The positions in the trace of the calls `op` of iteration k.
At(op, k) == {p \in 1..Len(trace) : trace[p].op = op /\ trace[p].it = k}

Iterations == 1..Len(tasks)

\* Iteration k has ended: the loop has moved on, or main raised within it.
IterationOver(k) == ti > k \/ (ti = k /\ pc = "raised")

\* The dataset group of a task (section 4.5) and the task's slice of the file.
GroupOfTask == [question_answering |-> "questanswer_1doc", summarization |-> "event_summary"]

SliceOfTask(t) == dataset_file.content[GroupOfTask[t]]

\* <output_dir>/<task>.json
PathOfTask(t) == <<"output_dir", t, ".json">>

\* C5: slice selection raises only for a task outside the four tasks its
\* error message names as supported.
C5_SliceSelectionSupportsFour ==
    \A p \in 1..Len(trace) : trace[p].op = "reject" => trace[p].arg \notin MsgSupported

\* C6: with the dataset file missing, main raises FileNotFoundError and
\* nothing else happens: no output directory, no evaluator, no ingestion, no
\* evaluation, no output file.
C6_MissingDatasetFailsFirst ==
    ~dataset_file.exists =>
        /\ pc \in {"start", "raised"}
        /\ pc = "raised" => (error.kind = "raise" /\ error.exc = "FileNotFoundError")
        /\ ~dirCreated
        /\ evaluator = NotCalled
        /\ trace = <<>>
        /\ files = <<>>

C6_Witness ==
    /\ ~dataset_file.exists
    /\ pc = "raised"
    /\ ingest_docs
    /\ Len(tasks) >= 2
    /\ tasks[1] = "question_answering"

\* Every generation call of iteration k was answered.
AllAnswered(k) == \A p \in At("generate", k) : trace[p].arg.reply.kind = "ok"

\* C7: a completed evaluation run over a slice of N records, every generation
\* call answered, makes one generation call per record in dataset order and
\* writes once, after the last call, a collection of N result records, the
\* i-th built from the i-th record.
C7_OneResultPerRecordInOrder ==
    \A k \in Iterations :
        (At("write", k) # {} /\ AllAnswered(k)) =>
            LET slice == SliceOfTask(tasks[k])
                fld == FieldTable[tasks[k]]
                gens == SelectSeq(trace, LAMBDA e : e.op = "generate" /\ e.it = k)
                w == CHOOSE p \in At("write", k) : TRUE
                out == trace[w].arg.collection
            IN  /\ Cardinality(At("write", k)) = 1
                /\ \A p \in At("generate", k) : p < w
                /\ Len(gens) = Len(slice)
                /\ Len(out) = Len(slice)
                /\ \A i \in 1..Len(slice) :
                    /\ gens[i].idx = i
                    /\ gens[i].arg.prompt.query = slice[i][fld.query]
                    /\ gens[i].arg.prompt.document = slice[i][fld.document]
                    /\ out[i].query = slice[i][fld.query]
                    /\ out[i].ground_truth = slice[i][fld.ground_truth]
                    /\ out[i].generated_answer = post_process(gens[i].arg.reply.value)

\* A completed run over a slice of three records, two of them equal.
C7_Witness ==
    \E k \in Iterations :
        /\ tasks[k] = "question_answering"
        /\ At("write", k) # {}
        /\ AllAnswered(k)
        /\ Len(SliceOfTask(tasks[k])) = 3
        /\ SliceOfTask(tasks[k])[1] = SliceOfTask(tasks[k])[3]
        /\ files[PathOfTask(tasks[k])][3].generated_answer = <<"A">>

\* The part of C8 that holds of every iteration: with ingest_docs, evaluate
\* starts only after the iteration's one ingestion call has succeeded, a
\* failed ingestion leaves evaluate uncalled; without ingest_docs there is
\* no ingestion call.
IngestPrecedesEvaluate ==
    /\ ingest_docs =>
        \A k \in Iterations :
            /\ Cardinality(At("ingest", k)) <= 1
            /\ \A e \in At("evaluate", k) :
                \E p \in At("ingest", k) : p < e /\ trace[p].arg = TRUE
            /\ (\E p \in At("ingest", k) : trace[p].arg = FALSE) => At("evaluate", k) = {}
    /\ ~ingest_docs => \A p \in 1..Len(trace) : trace[p].op # "ingest"

\* C8 as stated: ingestion precedes evaluate, and with ingest_docs ingestion
\* is invoked once in every task iteration of the tasks list.
C8_IngestOnceEveryIteration ==
    /\ IngestPrecedesEvaluate
    /\ ingest_docs =>
        \A k \in Iterations : IterationOver(k) => Cardinality(At("ingest", k)) = 1

\* C8 amended: ingestion precedes evaluate, and with ingest_docs ingestion is
\* invoked once in every task iteration whose task slice selection accepts.
C8_IngestOnceEveryAcceptedIteration ==
    /\ IngestPrecedesEvaluate
    /\ ingest_docs =>
        \A k \in Iterations :
            (IterationOver(k) /\ At("reject", k) = {}) => Cardinality(At("ingest", k)) = 1

C8_Witness ==
    /\ ingest_docs
    /\ pc = "done"
    /\ Len(tasks) >= 2
    /\ \A k \in Iterations : At("ingest", k) # {} /\ At("evaluate", k) # {}

\* The part of C9 that holds of every run: evaluate is called for the tasks
\* in list order, a run ends (writes) before the next starts, each run has an
\* evaluator built in its own iteration, and run k writes tasks[k]'s results
\* to <output_dir>/<tasks[k]>.json.
SequentialRuns ==
    LET evals == SelectSeq(trace, LAMBDA e : e.op = "evaluate")
    IN  /\ \A j \in 1..Len(evals) :
            /\ evals[j].it = j
            /\ evals[j].arg = PathOfTask(tasks[j])
        /\ \A k \in Iterations :
            /\ Cardinality(At("evaluate", k)) <= 1
            /\ Cardinality(At("construct", k)) <= 1
            /\ \A e \in At("evaluate", k) :
                /\ \E c \in At("construct", k) : c < e /\ trace[c].arg = PathOfTask(tasks[k])
                /\ \A j \in 1..(k - 1) : \E w \in At("write", j) : w < e
            /\ \A w \in At("write", k) :
                /\ trace[w].arg.path = PathOfTask(tasks[k])
                /\ \E e \in At("evaluate", k) : e < w
        /\ pc = "record" => /\ At("evaluate", ti) # {}
                            /\ At("write", ti) = {}
                            /\ evaluator.task = tasks[ti]

\* C9 as stated: sequential runs, and no run's output file is written by
\* another run of the invocation.
C9_IndependentOutputFiles ==
    /\ SequentialRuns
    /\ \A a, b \in 1..Len(trace) :
        (trace[a].op = "write" /\ trace[b].op = "write" /\ a # b)
            => trace[a].arg.path # trace[b].arg.path

\* C9 amended: sequential runs, and the runs of different task identifiers
\* write different files; each file holds what the last run of its task wrote.
C9_IndependentFilesOfDistinctTasks ==
    /\ SequentialRuns
    /\ \A a, b \in 1..Len(trace) :
        (trace[a].op = "write" /\ trace[b].op = "write"
            /\ tasks[trace[a].it] # tasks[trace[b].it])
            => trace[a].arg.path # trace[b].arg.path
    /\ \A a \in 1..Len(trace) :
        (trace[a].op = "write"
            /\ \A b \in (a + 1)..Len(trace) :
                   trace[b].op = "write" => tasks[trace[b].it] # tasks[trace[a].it])
            => /\ trace[a].arg.path \in DOMAIN files
               /\ files[trace[a].arg.path] = trace[a].arg.collection

C9_Witness ==
    /\ pc = "done"
    /\ tasks = <<"summarization", "question_answering">>
    /\ DOMAIN files = {PathOfTask("summarization"), PathOfTask("question_answering")}
    /\ files[PathOfTask("summarization")] # <<>>
    /\ files[PathOfTask("question_answering")] # <<>>

\* C10: when slice selection rejects the task at position i, main ends there
\* with the unknown-task error: nothing was constructed, ingested or
\* evaluated for that task, every earlier task has been evaluated and its
\* file holds what was written, and nothing happens afterwards.
C10_RejectedTaskAbortsRun ==
    \A i \in Iterations : \A r \in At("reject", i) :
        /\ r = Len(trace)
        /\ pc = "raised"
        /\ ti = i
        /\ error.kind = "raise" /\ error.exc = "NotImplementedError" /\ error.arg.task = tasks[i]
        /\ \A p \in 1..Len(trace) :
            trace[p].op \in {"construct", "ingest", "evaluate", "generate", "write"}
                => trace[p].it < i
        /\ \A j \in 1..(i - 1) :
            /\ At("evaluate", j) # {}
            /\ At("write", j) # {}
            /\ PathOfTask(tasks[j]) \in DOMAIN files
            /\ \E w \in 1..Len(trace) :
                /\ trace[w].op = "write"
                /\ trace[w].arg.path = PathOfTask(tasks[j])
                /\ files[PathOfTask(tasks[j])] = trace[w].arg.collection

C10_Witness ==
    /\ Len(tasks) = 3
    /\ tasks[1] = "question_answering"
    /\ tasks[3] = "summarization"
    /\ At("reject", 2) # {}
    /\ pc = "raised"
    /\ files[PathOfTask("question_answering")] # <<>>

====
